---------------------------- MODULE Spec2Model ----------------------------
(***************************************************************************)
(* CODEOWNERS filter (akowalska622/codeowners-filter): the rule parser,    *)
(* the specificity ranker, the pattern matchers, the owner index and the   *)
(* path tree builder of the VS Code extension, as a state machine.         *)
(*                                                                         *)
(* A JavaScript string is a sequence of one-character strings, so that     *)
(* startsWith, split, replace and the regular expressions the code builds  *)
(* are computed character by character.                                    *)
(***************************************************************************)
EXTENDS Integers, Sequences, FiniteSets, TLC

VARIABLES
  workspaceOpen,     \* vscode.workspace.workspaceFolders is defined
  codeowners,        \* <workspace>/.github/CODEOWNERS: [exists, readable, lines]
  fsFiles,           \* the files of the workspace (relative paths)
  helpers,           \* which ./helpers module is linked: "plain" | "ranked"
  currentCodeowner,  \* tree provider state: selected owner ("" when none)
  rootNodes,         \* tree provider state: fullPaths of the root PathNodes
  nodeMap,           \* the PathNodes of the last built tree, by fullPath
  pendingPick,       \* the quick pick a command awaits: [command, items], or none
  call               \* the last call or command observed: name, arguments, result

vars == <<workspaceOpen, codeowners, fsFiles, helpers, currentCodeowner, rootNodes, nodeMap, pendingPick, call>>

-----------------------------------------------------------------------------
(* Bounds of the model *)

MaxPatternLen == 3
MaxPathLen == 4
MaxRules == 3
MaxTreeRules == 2
MaxIncludeRules == 4
MaxParseLines == 3

-----------------------------------------------------------------------------
(* JavaScript string primitives on sequences of characters *)

startsWith(s, p) == Len(p) <= Len(s) /\ SubSeq(s, 1, Len(p)) = p

endsWith(s, p) == Len(p) <= Len(s) /\ SubSeq(s, Len(s) - Len(p) + 1, Len(s)) = p

\* s.slice(n) for n >= 0
sliceFrom(s, n) == SubSeq(s, n + 1, Len(s))

\* s.slice(0, -n)
dropLast(s, n) == SubSeq(s, 1, Len(s) - n)

\* s.includes(t) for a non-empty text t
includes(s, t) == \E i \in 1..(Len(s) - Len(t) + 1) : SubSeq(s, i, i + Len(t) - 1) = t

\* s.lastIndexOf(c), 1-based, 0 when absent
lastIndexOf(s, c) ==
  IF \E i \in 1..Len(s) : s[i] = c
    THEN CHOOSE i \in 1..Len(s) : s[i] = c /\ \A j \in (i + 1)..Len(s) : s[j] # c
    ELSE 0

RECURSIVE replaceAll(_, _, _)
\* s.replace(/t/g, r): leftmost, non-overlapping occurrences of the text t
replaceAll(s, t, r) ==
  IF Len(s) = 0 THEN <<>>
  ELSE IF startsWith(s, t) THEN r \o replaceAll(sliceFrom(s, Len(t)), t, r)
  ELSE <<s[1]>> \o replaceAll(Tail(s), t, r)

RECURSIVE splitOn(_, _)
\* s.split(c) for a one-character separator: always at least one piece
splitOn(s, c) ==
  IF ~ \E i \in 1..Len(s) : s[i] = c THEN <<s>>
  ELSE LET i == CHOOSE k \in 1..Len(s) : s[k] = c /\ \A j \in 1..(k - 1) : s[j] # c
       IN  <<SubSeq(s, 1, i - 1)>> \o splitOn(sliceFrom(s, i), c)

\* arr.filter(Boolean) on an array of strings: the non-empty ones
filterBoolean(arr) == SelectSeq(arr, LAMBDA x : x # <<>>)

RECURSIVE join(_, _)
\* arr.join(sep)
join(arr, sep) ==
  IF Len(arr) = 0 THEN <<>>
  ELSE IF Len(arr) = 1 THEN arr[1]
  ELSE arr[1] \o sep \o join(Tail(arr), sep)

\* normalization used throughout: strip one leading "/"
stripLeadingSlash(s) == IF startsWith(s, <<"/">>) THEN sliceFrom(s, 1) ELSE s

-----------------------------------------------------------------------------
(* The regular expressions the code builds.  A regular expression source   *)
(* is a sequence of characters; the engine below covers the constructs     *)
(* the code can produce from the characters of the model: an escaped       *)
(* character, "[^/]*", ".*", "." and a literal character.                  *)

NotSlashStar == <<"[", "^", "/", "]", "*">>

RECURSIVE regexMatchAt(_, _, _, _, _)
\* does re, from position i, match s from position j (to the end of s when anchored)
regexMatchAt(re, i, s, j, anchoredEnd) ==
  IF i > Len(re) THEN (~anchoredEnd \/ j > Len(s))
  ELSE IF re[i] = "\\" /\ i < Len(re)
    THEN j <= Len(s) /\ s[j] = re[i + 1] /\ regexMatchAt(re, i + 2, s, j + 1, anchoredEnd)
  ELSE IF startsWith(sliceFrom(re, i - 1), NotSlashStar)
    THEN \E k \in j..(Len(s) + 1) :
           /\ \A m \in j..(k - 1) : s[m] # "/"
           /\ regexMatchAt(re, i + 5, s, k, anchoredEnd)
  ELSE IF re[i] = "." /\ i < Len(re) /\ re[i + 1] = "*"
    THEN \E k \in j..(Len(s) + 1) : regexMatchAt(re, i + 2, s, k, anchoredEnd)
  ELSE IF re[i] = "."
    THEN j <= Len(s) /\ regexMatchAt(re, i + 1, s, j + 1, anchoredEnd)
  ELSE j <= Len(s) /\ s[j] = re[i] /\ regexMatchAt(re, i + 1, s, j + 1, anchoredEnd)

\* new RegExp("^" + re + "$").test(s)
regexTestWhole(re, s) == regexMatchAt(re, 1, s, 1, TRUE)

\* new RegExp("^" + re).test(s)
regexTestPrefix(re, s) == regexMatchAt(re, 1, s, 1, FALSE)

-----------------------------------------------------------------------------
(* generateCodeownerTreeCommand: matchesGlobPattern *)

\* a variant that forgets to escape ".": the dot becomes the regex wildcard
globRegexSourceUnescaped(pattern) ==
  LET marked == replaceAll(pattern, <<"*", "*">>, <<"GLOBSTARPLACEHOLDER">>)
      single == replaceAll(marked, <<"*">>, NotSlashStar)
  IN  replaceAll(single, <<"GLOBSTARPLACEHOLDER">>, <<".", "*">>)

\* the regular expression source matchesGlobPattern builds from a pattern
globRegexSource(pattern) ==
  LET escaped == replaceAll(pattern, <<".">>, <<"\\", ".">>)
      marked  == replaceAll(escaped, <<"*", "*">>, <<"GLOBSTARPLACEHOLDER">>)
      single  == replaceAll(marked, <<"*">>, NotSlashStar)
  IN  replaceAll(single, <<"GLOBSTARPLACEHOLDER">>, <<".", "*">>)

matchesGlobPattern(filePath, pattern) == regexTestWhole(globRegexSource(pattern), filePath)


-----------------------------------------------------------------------------
(* extension (tree view by owner): isPathIncluded.  The owner index is a   *)
(* sequence of [owner, paths] entries in key insertion order.              *)

\* codeOwnersMap[owner] || []
pathsOf(codeOwnersMap, owner) ==
  IF \E i \in 1..Len(codeOwnersMap) : codeOwnersMap[i].owner = owner
    THEN codeOwnersMap[CHOOSE i \in 1..Len(codeOwnersMap) : codeOwnersMap[i].owner = owner].paths
    ELSE <<>>

\* one iteration of the loop over ownerPaths: does ownerPath accept relativePath
ownerPathIncludes(relativePath, ownerPath) ==
  LET normalizedOwnerPath == replaceAll(ownerPath, <<"\\">>, <<"/">>)
      directChildOf(base) ==
        /\ startsWith(relativePath, base \o <<"/">>)
        /\ ~ includes(sliceFrom(relativePath, Len(base) + 1), <<"/">>)
  IN  \/ normalizedOwnerPath = relativePath
      \/ directChildOf(normalizedOwnerPath)
      \/ /\ endsWith(normalizedOwnerPath, <<"/", "*">>)
         /\ directChildOf(dropLast(normalizedOwnerPath, 1))
      \/ /\ endsWith(normalizedOwnerPath, <<"/", "*", "*">>)
         /\ startsWith(relativePath, dropLast(normalizedOwnerPath, 2))

isPathIncluded(selectedOwner, codeOwnersMap, relativePath) ==
  IF selectedOwner = <<>> \/ selectedOwner = <<"a", "l", "l">> THEN TRUE
  ELSE LET ownerPaths == pathsOf(codeOwnersMap, selectedOwner)
           rel == replaceAll(relativePath, <<"\\">>, <<"/">>)
       IN  \E i \in 1..Len(ownerPaths) : ownerPathIncludes(rel, ownerPaths[i])

-----------------------------------------------------------------------------
(* helpers (ranked): isSubpath and the weights of calculateSpecificity *)

isSubpath(parentPath, childPath) ==
  regexTestPrefix(replaceAll(parentPath, <<"*">>, <<".", "*">>), childPath)

SegmentWeight == 100
LiteralBonus == 50
ExtensionBonus == 25

-----------------------------------------------------------------------------
(* helpers: parsing the CODEOWNERS file.  The file is the sequence of the  *)
(* pieces of fileContent.split("\n").                                      *)

isWhitespace(c) == c \in {" ", "\t"}

RECURSIVE trimStart(_)
trimStart(s) == IF s # <<>> /\ isWhitespace(s[1]) THEN trimStart(Tail(s)) ELSE s

RECURSIVE trimEnd(_)
trimEnd(s) == IF s # <<>> /\ isWhitespace(s[Len(s)]) THEN trimEnd(dropLast(s, 1)) ELSE s

\* s.trim()
trim(s) == trimEnd(trimStart(s))

RECURSIVE splitWhitespace(_)
\* s.split(/\s+/)
splitWhitespace(s) ==
  IF ~ \E i \in 1..Len(s) : isWhitespace(s[i]) THEN <<s>>
  ELSE LET i == CHOOSE k \in 1..Len(s) :
                  isWhitespace(s[k]) /\ \A j \in 1..(k - 1) : ~ isWhitespace(s[j])
       IN  <<SubSeq(s, 1, i - 1)>> \o splitWhitespace(trimStart(sliceFrom(s, i)))

\* a line that carries a rule: not blank, not a whole-line comment
isRuleLine(line) == trim(line) # <<>> /\ ~ startsWith(trim(line), <<"#">>)

\* parts[0] with one leading "/" stripped
rulePattern(line) == stripLeadingSlash(splitWhitespace(trim(line))[1])

\* parts.slice(1).filter((part) => part.startsWith("@"))
ruleOwners(line) ==
  SelectSeq(Tail(splitWhitespace(trim(line))), LAMBDA part : startsWith(part, <<"@">>))

\* codeownersMap[owner].push(path), creating the key on first use
pushPath(map, owner, path) ==
  IF \E i \in 1..Len(map) : map[i].owner = owner
    THEN [i \in 1..Len(map) |->
            IF map[i].owner = owner
              THEN [owner |-> owner, paths |-> Append(map[i].paths, path)]
              ELSE map[i]]
    ELSE Append(map, [owner |-> owner, paths |-> <<path>>])

RECURSIVE pushPathForEach(_, _, _)
\* owners.forEach((owner) => codeownersMap[owner].push(path))
pushPathForEach(map, owners, path) ==
  IF owners = <<>> THEN map
  ELSE pushPathForEach(pushPath(map, owners[1], path), Tail(owners), path)

RECURSIVE plainOwnerMap(_, _)
\* helpers.ts: the loop over the lines of the file
plainOwnerMap(lines, map) ==
  IF lines = <<>> THEN map
  ELSE IF isRuleLine(lines[1])
    THEN plainOwnerMap(Tail(lines),
                       pushPathForEach(map, ruleOwners(lines[1]), rulePattern(lines[1])))
  ELSE plainOwnerMap(Tail(lines), map)

\* helpers.ts getCodeownersPaths
getCodeownersPathsPlain(ws, file) ==
  IF ~ ws THEN <<>>
  ELSE IF ~ file.exists THEN <<>>
  ELSE IF ~ file.readable THEN <<>>
  ELSE plainOwnerMap(file.lines, <<>>)

-----------------------------------------------------------------------------
(* helpers (ranked): entries with specificity, effective patterns *)

\* a variant that counts the pieces of split("/") without filter(Boolean)
calculateSpecificityUnfiltered(pattern) ==
  Len(splitOn(pattern, "/")) * SegmentWeight
    + (IF ~ includes(pattern, <<"*">>) THEN LiteralBonus ELSE 0)
    + (IF includes(pattern, <<".">>) /\ ~ endsWith(pattern, <<"/">>)
         THEN ExtensionBonus ELSE 0)

calculateSpecificity(pattern) ==
  LET segments == Len(filterBoolean(splitOn(pattern, "/")))
  IN  segments * SegmentWeight
        + (IF ~ includes(pattern, <<"*">>) THEN LiteralBonus ELSE 0)
        + (IF includes(pattern, <<".">>) /\ ~ endsWith(pattern, <<"/">>)
             THEN ExtensionBonus ELSE 0)

RECURSIVE parseEntries(_)
\* the CodeOwnerEntry of every rule line, in file order
parseEntries(lines) ==
  IF lines = <<>> THEN <<>>
  ELSE IF isRuleLine(lines[1])
    THEN <<[pattern |-> rulePattern(lines[1]), owners |-> ruleOwners(lines[1]),
            specificity |-> calculateSpecificity(rulePattern(lines[1]))]>>
         \o parseEntries(Tail(lines))
  ELSE parseEntries(Tail(lines))

RECURSIVE sortBySpecificity(_)
\* entries.sort((a, b) => b.specificity - a.specificity): descending, stable
sortBySpecificity(entries) ==
  IF entries = <<>> THEN <<>>
  ELSE LET top == CHOOSE v \in {entries[i].specificity : i \in 1..Len(entries)} :
                    \A i \in 1..Len(entries) : entries[i].specificity <= v
       IN  SelectSeq(entries, LAMBDA e : e.specificity = top)
           \o sortBySpecificity(SelectSeq(entries, LAMBDA e : e.specificity # top))

RECURSIVE rankedOwnerPatternsMap(_, _)
\* ownerPatternsMap: every entry's pattern appended to each of its owners
rankedOwnerPatternsMap(entries, map) ==
  IF entries = <<>> THEN map
  ELSE rankedOwnerPatternsMap(Tail(entries),
                              pushPathForEach(map, entries[1].owners, entries[1].pattern))

\* allEntries.find((e) => e.pattern === pattern)
findEntry(allEntries, pattern) ==
  allEntries[CHOOSE i \in 1..Len(allEntries) :
               /\ allEntries[i].pattern = pattern
               /\ \A j \in 1..(i - 1) : allEntries[j].pattern # pattern]

\* ownerPatterns.includes(pattern)
arrayIncludes(arr, x) == \E i \in 1..Len(arr) : arr[i] = x

\* the entries that make calculateEffectivePatterns drop `pattern`
overridingEntries(pattern, ownerPatterns, allEntries) ==
  {i \in 1..Len(allEntries) :
     /\ allEntries[i].pattern # pattern
     /\ allEntries[i].specificity > findEntry(allEntries, pattern).specificity
     /\ isSubpath(pattern, allEntries[i].pattern)
     /\ ~ (allEntries[i].owners # <<>> /\ arrayIncludes(ownerPatterns, allEntries[i].pattern))}

calculateEffectivePatterns(ownerPatterns, allEntries) ==
  LET excludedPatterns ==
        {allEntries[i].pattern :
           i \in UNION {overridingEntries(ownerPatterns[k], ownerPatterns, allEntries) :
                          k \in 1..Len(ownerPatterns)}}
      effectivePatterns ==
        SelectSeq(ownerPatterns,
                  LAMBDA pattern : overridingEntries(pattern, ownerPatterns, allEntries) = {})
  IN  SelectSeq(effectivePatterns,
                LAMBDA pattern : ~ \E excluded \in excludedPatterns : isSubpath(pattern, excluded))

\* helpers (ranked) getCodeownersPaths
getCodeownersPathsRanked(ws, file) ==
  IF ~ ws THEN <<>>
  ELSE IF ~ file.exists THEN <<>>
  ELSE IF ~ file.readable THEN <<>>
  ELSE LET entries == sortBySpecificity(parseEntries(file.lines))
           ownerPatternsMap == rankedOwnerPatternsMap(entries, <<>>)
       IN  [i \in 1..Len(ownerPatternsMap) |->
              [owner |-> ownerPatternsMap[i].owner,
               paths |-> calculateEffectivePatterns(ownerPatternsMap[i].paths, entries)]]

\* getCodeownersPaths of the ./helpers module that is linked
getCodeownersPathsOf(module, ws, file) ==
  IF module = "ranked" THEN getCodeownersPathsRanked(ws, file)
  ELSE getCodeownersPathsPlain(ws, file)

\* what getCodeownersPaths passes to showErrorMessage, "" when nothing; the
\* ranked helpers append the text of the exception to the last message
errorMessageOf(ws, file) ==
  IF ~ ws THEN "No workspace is open."
  ELSE IF ~ file.exists THEN "No CODEOWNERS file found."
  ELSE IF ~ file.readable THEN "Error reading CODEOWNERS file"
  ELSE ""

-----------------------------------------------------------------------------
(* generateCodeownerTreeCommand: getMostSpecificCodeowner *)

\* the (owner, pattern) pairs in the order of the two nested loops
RECURSIVE ownerPatternPairs(_)
ownerPatternPairs(codeownerPaths) ==
  IF codeownerPaths = <<>> THEN <<>>
  ELSE [k \in 1..Len(codeownerPaths[1].paths) |->
          [owner |-> codeownerPaths[1].owner, pattern |-> codeownerPaths[1].paths[k]]]
       \o ownerPatternPairs(Tail(codeownerPaths))

\* a variant that tests the prefix without the "/" boundary
literalPrefixMatchUnbounded(path, pattern) ==
  /\ ~ includes(pattern, <<"*">>)
  /\ startsWith(path, stripLeadingSlash(pattern))

\* does the loop body take this pattern as a match of path
literalPrefixMatch(path, pattern) ==
  /\ ~ includes(pattern, <<"*">>)
  /\ \/ path = stripLeadingSlash(pattern)
     \/ startsWith(path, stripLeadingSlash(pattern) \o <<"/">>)

RECURSIVE mostSpecificScan(_, _, _, _)
\* the loops, carrying mostSpecificCodeowner and longestMatchLength
mostSpecificScan(pairs, path, mostSpecificCodeowner, longestMatchLength) ==
  IF pairs = <<>> THEN mostSpecificCodeowner
  ELSE IF /\ literalPrefixMatch(path, pairs[1].pattern)
          /\ Len(stripLeadingSlash(pairs[1].pattern)) > longestMatchLength
    THEN mostSpecificScan(Tail(pairs), path, pairs[1].owner,
                          Len(stripLeadingSlash(pairs[1].pattern)))
  ELSE mostSpecificScan(Tail(pairs), path, mostSpecificCodeowner, longestMatchLength)

\* null is the empty string of the model: no owner is empty, owners start with "@"
Null == <<>>

getMostSpecificCodeowner(path, codeownerPaths) ==
  mostSpecificScan(ownerPatternPairs(codeownerPaths), path, Null, -1)

-----------------------------------------------------------------------------
(* The workspace file system, as the code probes it.  The state is the set *)
(* of the workspace's files; a directory exists when a file lies below it. *)
(* path.join normalizes what it is given: empty and "." segments vanish.   *)

\* path.join(workspacePath, p) relative to the workspace: "" is the root
fsKey(p) ==
  join(SelectSeq(splitOn(p, "/"), LAMBDA seg : seg # <<>> /\ seg # <<".">>), <<"/">>)

\* is file f below the directory with key d
fileBelow(f, d) == IF d = <<>> THEN TRUE ELSE startsWith(f, d \o <<"/">>)

\* fs.existsSync(full) && fs.statSync(full).isDirectory()
isDirectory(files, p) ==
  fsKey(p) = <<>> \/ \E f \in files : startsWith(f, fsKey(p) \o <<"/">>)

\* isFile(fullPath, workspacePath): statSync(...).isFile(), false when stat throws
isFile(files, p) == fsKey(p) \in files /\ ~ endsWith(p, <<"/">>)

\* the collation of the characters file names are made of (localeCompare)
Collation ==
  << "_", "-", ".", "0", "1", "2", "3", "4", "5", "6", "7", "8", "9",
     "a", "b", "c", "d", "e", "f", "g", "h", "i", "j", "k", "l", "m",
     "n", "o", "p", "q", "r", "s", "t", "u", "v", "w", "x", "y", "z", "/" >>

charRank(c) == CHOOSE i \in 1..Len(Collation) : Collation[i] = c

RECURSIVE localeCompare(_, _)
\* a.localeCompare(b): negative, zero or positive
localeCompare(a, b) ==
  IF a = <<>> /\ b = <<>> THEN 0
  ELSE IF a = <<>> THEN -1
  ELSE IF b = <<>> THEN 1
  ELSE IF a[1] = b[1] THEN localeCompare(Tail(a), Tail(b))
  ELSE charRank(a[1]) - charRank(b[1])

RECURSIVE readdirOrder(_)
\* the files of a set in the order the directory walk yields them
readdirOrder(files) ==
  IF files = {} THEN <<>>
  ELSE LET first == CHOOSE f \in files : \A g \in files : localeCompare(f, g) <= 0
       IN  <<first>> \o readdirOrder(files \ {first})

\* getFilesInDirectory(directoryPath, workspacePath, recursive)
getFilesInDirectory(files, directoryPath, recursive) ==
  IF ~ isDirectory(files, directoryPath) THEN <<>>
  ELSE LET d == fsKey(directoryPath)
           depth == IF d = <<>> THEN 0 ELSE Len(splitOn(d, "/"))
       IN  readdirOrder({f \in files :
                           /\ fileBelow(f, d)
                           /\ (recursive \/ Len(splitOn(f, "/")) = depth + 1)})

-----------------------------------------------------------------------------
(* generateCodeownerTreeCommand: expandGlobPatterns *)

RECURSIVE unique(_)
\* [...new Set(arr)]: first occurrences, in order
unique(arr) ==
  IF arr = <<>> THEN <<>>
  ELSE <<arr[1]>> \o unique(SelectSeq(Tail(arr), LAMBDA x : x # arr[1]))

\* what one pattern contributes to expandedPaths
expandOne(files, pathPattern) ==
  LET normalizedPath == stripLeadingSlash(pathPattern)
      lastSlashIndex == lastIndexOf(normalizedPath, "/")
      dirPath == IF lastSlashIndex # 0 THEN SubSeq(normalizedPath, 1, lastSlashIndex - 1)
                 ELSE <<>>
      shouldRecurse == includes(normalizedPath, <<"*", "*">>)
      baseDir == IF dirPath # <<>> THEN dirPath ELSE <<".">>
      listed == getFilesInDirectory(files, baseDir, shouldRecurse)
  IN  IF includes(normalizedPath, <<"*">>)
        THEN SelectSeq(listed, LAMBDA file : matchesGlobPattern(file, normalizedPath))
             \o (IF dirPath # <<>> THEN <<dirPath>> ELSE <<>>)
        ELSE <<normalizedPath>>

RECURSIVE expandEach(_, _)
expandEach(files, paths) ==
  IF paths = <<>> THEN <<>>
  ELSE expandOne(files, paths[1]) \o expandEach(files, Tail(paths))

expandGlobPatterns(files, paths) == unique(expandEach(files, paths))

-----------------------------------------------------------------------------
(* generateCodeownerTreeCommand: buildPathTree.  A tree under construction *)
(* is [nodeMap, rootNodes]; a PathNode refers to its children by fullPath. *)

EmptyTree == [nodeMap |-> <<>>, rootNodes |-> <<>>]

RECURSIVE directoryContents(_, _)
\* the first forEach: the files below every expanded path that is a directory
directoryContents(files, expandedPaths) ==
  IF expandedPaths = <<>> THEN <<>>
  ELSE (IF ~ includes(expandedPaths[1], <<"*">>)
           /\ isDirectory(files, stripLeadingSlash(expandedPaths[1]))
          THEN getFilesInDirectory(files, stripLeadingSlash(expandedPaths[1]), TRUE)
          ELSE <<>>)
       \o directoryContents(files, Tail(expandedPaths))

\* is the path assigned to another codeowner by a more specific literal rule
belongsToOther(path, codeownerPaths, selectedCodeowner) ==
  LET mostSpecificCodeowner == getMostSpecificCodeowner(path, codeownerPaths)
  IN  mostSpecificCodeowner # Null /\ mostSpecificCodeowner # selectedCodeowner

\* nodeMap.set(currentPath, newNode) and the push to the parent or to rootNodes
insertNode(tree, parentPath, segment, currentPath, isLastSegment, isFileSegment) ==
  LET newNode == [label |-> segment, fullPath |-> currentPath,
                  isDirectlyOwned |-> isLastSegment, isFile |-> isFileSegment,
                  children |-> <<>>]
      withNode == [q \in DOMAIN tree.nodeMap \cup {currentPath} |->
                     IF q = currentPath THEN newNode ELSE tree.nodeMap[q]]
  IN  IF parentPath # <<>>
        THEN [nodeMap |->
                IF parentPath \in DOMAIN tree.nodeMap
                  THEN [withNode EXCEPT ![parentPath].children = Append(@, currentPath)]
                  ELSE withNode,
              rootNodes |-> tree.rootNodes]
        ELSE [nodeMap |-> withNode, rootNodes |-> Append(tree.rootNodes, currentPath)]

\* the update of a node that exists and is the last segment of the path
markOwned(tree, currentPath, isFileSegment) ==
  [tree EXCEPT !.nodeMap[currentPath].isDirectlyOwned = TRUE,
               !.nodeMap[currentPath].isFile = (@ \/ isFileSegment)]

RECURSIVE reduceSegmentsUnchecked(_, _, _, _, _, _, _)
\* a reduce that creates a node for every segment without looking it up
reduceSegmentsUnchecked(tree, segments, index, parentPath, isPathFile, codeownerPaths, selectedCodeowner) ==
  IF index > Len(segments) THEN tree
  ELSE LET segment == segments[index]
           currentPath == IF parentPath # <<>> THEN parentPath \o <<"/">> \o segment
                          ELSE segment
           next == IF parentPath # <<>>
                      /\ belongsToOther(currentPath, codeownerPaths, selectedCodeowner)
                     THEN tree
                   ELSE insertNode(tree, parentPath, segment, currentPath,
                                   index = Len(segments), index = Len(segments) /\ isPathFile)
       IN  reduceSegmentsUnchecked(next, segments, index + 1, currentPath, isPathFile,
                                   codeownerPaths, selectedCodeowner)

RECURSIVE reduceSegments(_, _, _, _, _, _, _)
\* segments.reduce(...) from segment `index` on, with the accumulator parentPath
reduceSegments(tree, segments, index, parentPath, isPathFile, codeownerPaths, selectedCodeowner) ==
  IF index > Len(segments) THEN tree
  ELSE LET segment == segments[index]
           currentPath == IF parentPath # <<>> THEN parentPath \o <<"/">> \o segment
                          ELSE segment
           isLastSegment == index = Len(segments)
           isFileSegment == isLastSegment /\ isPathFile
           next == IF parentPath # <<>>
                      /\ belongsToOther(currentPath, codeownerPaths, selectedCodeowner)
                     THEN tree
                   ELSE IF currentPath \notin DOMAIN tree.nodeMap
                     THEN insertNode(tree, parentPath, segment, currentPath,
                                     isLastSegment, isFileSegment)
                   ELSE IF isLastSegment
                     THEN markOwned(tree, currentPath, isFileSegment)
                   ELSE tree
       IN  reduceSegments(next, segments, index + 1, currentPath, isPathFile,
                          codeownerPaths, selectedCodeowner)

\* the body of uniquePaths.forEach for one path
addPath(tree, files, pathStr, codeownerPaths, selectedCodeowner) ==
  LET cleanPath == stripLeadingSlash(pathStr)
  IN  IF includes(pathStr, <<"*">>) THEN tree
      ELSE IF cleanPath = <<>> THEN tree
      ELSE IF belongsToOther(cleanPath, codeownerPaths, selectedCodeowner) THEN tree
      ELSE reduceSegments(tree, filterBoolean(splitOn(cleanPath, "/")), 1, <<>>,
                          isFile(files, cleanPath), codeownerPaths, selectedCodeowner)

RECURSIVE addPaths(_, _, _, _, _)
addPaths(tree, files, uniquePaths, codeownerPaths, selectedCodeowner) ==
  IF uniquePaths = <<>> THEN tree
  ELSE addPaths(addPath(tree, files, uniquePaths[1], codeownerPaths, selectedCodeowner),
                files, Tail(uniquePaths), codeownerPaths, selectedCodeowner)

\* a comparator that looks at the labels only
compareLabels(a, b) == localeCompare(a.label, b.label)

\* the comparator of both sorts: directories before files, then by label
compareNodes(a, b) ==
  IF ~ a.isFile /\ b.isFile THEN -1
  ELSE IF a.isFile /\ ~ b.isFile THEN 1
  ELSE localeCompare(a.label, b.label)

RECURSIVE insertSorted(_, _, _)
\* insert key k after every key that does not compare greater than it
insertSorted(nodes, sorted, k) ==
  IF sorted = <<>> THEN <<k>>
  ELSE IF compareNodes(nodes[sorted[1]], nodes[k]) <= 0
    THEN <<sorted[1]>> \o insertSorted(nodes, Tail(sorted), k)
  ELSE <<k>> \o sorted

RECURSIVE sortNodes(_, _, _)
\* arr.sort(comparator): stable
sortNodes(nodes, arr, sorted) ==
  IF arr = <<>> THEN sorted
  ELSE sortNodes(nodes, Tail(arr), insertSorted(nodes, sorted, arr[1]))

\* the two sorts that end buildPathTree
sortTree(tree) ==
  [nodeMap |-> [q \in DOMAIN tree.nodeMap |->
                  [tree.nodeMap[q] EXCEPT !.children = sortNodes(tree.nodeMap, @, <<>>)]],
   rootNodes |-> sortNodes(tree.nodeMap, tree.rootNodes, <<>>)]

buildPathTree(paths, files, codeownerPaths, selectedCodeowner) ==
  LET expandedPaths == expandGlobPatterns(files, paths)
      uniquePaths == unique(expandedPaths \o directoryContents(files, expandedPaths))
  IN  sortTree(addPaths(EmptyTree, files, uniquePaths, codeownerPaths, selectedCodeowner))

-----------------------------------------------------------------------------
(* helpers: getListOfUniqueCodeowners *)

\* [@\w/-]
isOwnerChar(c) ==
  c \in {"@", "/", "-", "_"} \/ (c \in {Collation[i] : i \in 1..Len(Collation)} /\ c # ".")

RECURSIVE stripTrailingPunctuation(_)
\* team.replace(/[^@\w/-]+$/, "")
stripTrailingPunctuation(team) ==
  IF team # <<>> /\ ~ isOwnerChar(team[Len(team)])
    THEN stripTrailingPunctuation(dropLast(team, 1))
    ELSE team

\* the owners one line contributes
lineTeams(line) ==
  IF ~ isRuleLine(line) THEN <<>>
  ELSE LET withoutComment == trim(splitOn(trim(line), "#")[1])
           teams == Tail(splitWhitespace(withoutComment))
           cleaned == [i \in 1..Len(teams) |-> trim(stripTrailingPunctuation(teams[i]))]
       IN  SelectSeq(cleaned, LAMBDA team : startsWith(team, <<"@">>))

RECURSIVE allLineTeams(_)
allLineTeams(lines) ==
  IF lines = <<>> THEN <<>> ELSE lineTeams(lines[1]) \o allLineTeams(Tail(lines))

getListOfUniqueCodeowners(ws, file) ==
  IF ~ ws THEN <<>>
  ELSE IF ~ file.exists THEN <<>>
  ELSE IF ~ file.readable THEN <<>>
  ELSE unique(allLineTeams(file.lines))

-----------------------------------------------------------------------------
(* Inputs of the pure functions: every pattern and every well-formed path  *)
(* over a small alphabet, and the examples the specification names.        *)

PatternChars == {"a", "/", "*", "."}
PathChars == {"a", ".", "/"}

Words(chars, n) == UNION {[1..k -> chars] : k \in 1..n}

\* a repository-relative, slash-normalized path: no empty segment
wellFormed(x) ==
  x # <<>> /\ \A i \in 1..Len(splitOn(x, "/")) : splitOn(x, "/")[i] # <<>>

ExamplePatterns ==
  { <<"s","r","c">>, <<"a","/","*">>, <<"a","/","*","*">>, <<"s","r","c","/","s","u","b">>,
    <<"a","/","*","/","c">>, <<"a","/","*","*","/","d">>, <<"*",".","t","s">> }

ExamplePaths ==
  { <<"s","r","c","/","a","/","b",".","t","s">>, <<"s","r","c","f","o","o","/","b",".","t","s">>,
    <<"a","/","b">>, <<"a","/","b","/","c">>, <<"a","/","b","/","c","/","d">>,
    <<"a","x","t","s">>, <<"a",".","t","s">> }

Patterns == Words(PatternChars, MaxPatternLen) \cup ExamplePatterns

Paths == {x \in Words(PathChars, MaxPathLen) : wellFormed(x)} \cup ExamplePaths

\* the owner the matcher harness selects in the tree view by owner
HarnessOwner == <<"@", "o">>

NoCall == [fn |-> "none", args |-> <<>>, ret |-> <<>>]

\* a call that has been issued and has not returned yet
Pending(fn, args) == [fn |-> fn, args |-> args, ret |-> <<>>]

-----------------------------------------------------------------------------
(* Specifications of the pure functions: the initial state holds a call    *)
(* with its arguments drawn from the sets above, the action applies the    *)
(* function and records what it returns.                                   *)

IdleProgram ==
  /\ workspaceOpen = TRUE
  /\ codeowners = [exists |-> FALSE, readable |-> TRUE, lines |-> <<>>]
  /\ fsFiles = {}
  /\ helpers = "plain"
  /\ currentCodeowner = <<>>
  /\ rootNodes = <<>>
  /\ nodeMap = <<>>
  /\ pendingPick = <<>>

UnchangedProgram == UNCHANGED <<workspaceOpen, codeowners, fsFiles, helpers, currentCodeowner, rootNodes, nodeMap, pendingPick>>

InitMatch ==
  /\ IdleProgram
  /\ \E x \in Paths, p \in Patterns :
       call \in {Pending("matchesGlobPattern", <<x, p>>), Pending("isPathIncluded", <<x, p>>)}

CallMatchesGlobPattern ==
  /\ call.fn = "matchesGlobPattern" /\ call.ret = <<>>
  /\ call' = [call EXCEPT !.ret = <<matchesGlobPattern(call.args[1], call.args[2])>>]
  /\ UnchangedProgram

CallIsPathIncluded ==
  /\ call.fn = "isPathIncluded" /\ call.ret = <<>>
  /\ call' = [call EXCEPT !.ret =
                <<isPathIncluded(HarnessOwner,
                                 <<[owner |-> HarnessOwner, paths |-> <<call.args[2]>>]>>,
                                 call.args[1])>>]
  /\ UnchangedProgram

NextMatch == CallMatchesGlobPattern \/ CallIsPathIncluded

SpecMatch == InitMatch /\ [][NextMatch]_vars

InitRank ==
  /\ IdleProgram
  /\ \E p \in Patterns, q \in Patterns : call = Pending("calculateSpecificity", <<p, q>>)

CallCalculateSpecificity ==
  /\ call.fn = "calculateSpecificity" /\ call.ret = <<>>
  /\ call' = [call EXCEPT !.ret = <<calculateSpecificity(call.args[1]),
                                    calculateSpecificity(call.args[2])>>]
  /\ UnchangedProgram

NextRank == CallCalculateSpecificity

SpecRank == InitRank /\ [][NextRank]_vars

-----------------------------------------------------------------------------
(* Rule files and paths of the owner-index specification: the rules of the *)
(* scenarios of the specification (a directory, a nested directory, with   *)
(* and without trailing slash, wildcards), given to two owners.            *)

Writers == <<"@","w","r","i","t","e","r","s">>
ApiTeam == <<"@","a","p","i","-","t","e","a","m">>
TsOwners == <<"@","t","s","-","o","w","n","e","r","s">>

P_docs == <<"d","o","c","s">>
P_docsSlash == <<"d","o","c","s","/">>
P_docsApi == <<"d","o","c","s","/","a","p","i">>
P_docsApiSlash == <<"d","o","c","s","/","a","p","i","/">>
P_docsAll == <<"d","o","c","s","/","*","*">>

F_intro == <<"d","o","c","s","/","i","n","t","r","o",".","m","d">>
F_readme == <<"d","o","c","s","/","a","p","i","/","r","e","a","d","m","e",".","m","d">>
F_guide == <<"d","o","c","s","/","a","p","i","/","v","1","/","g","u","i","d","e",".","m","d">>
F_docsx == <<"d","o","c","s","x","/","a",".","m","d">>

\* a rule line as it is written in the file
RuleLine(pattern, owners) == pattern \o <<" ">> \o join(owners, <<" ">>)

IndexLines ==
  { RuleLine(P_docs, <<Writers>>),
    RuleLine(P_docsApi, <<ApiTeam>>),
    RuleLine(P_docsApi, <<Writers>>),
    RuleLine(P_docsSlash, <<Writers>>),
    RuleLine(P_docsApiSlash, <<ApiTeam>>),
    RuleLine(P_docsAll, <<Writers>>),
    RuleLine(P_docs, <<Writers, ApiTeam>>) }

RuleFiles(lines, n) == UNION {[1..k -> lines] : k \in 0..n}

LookupPaths == {P_docs, P_docsApi, F_intro, F_readme, F_guide, F_docsx}

-----------------------------------------------------------------------------
(* Specification of the owner index: the initial state holds the rule file *)
(* and a call; the action builds the index, and for a lookup applies       *)
(* getMostSpecificCodeowner to it.                                         *)

InitIndex ==
  /\ workspaceOpen = TRUE
  /\ codeowners \in {[exists |-> TRUE, readable |-> TRUE, lines |-> f] : f \in RuleFiles(IndexLines, MaxRules)}
  /\ fsFiles = {}
  /\ helpers \in {"plain", "ranked"}
  /\ currentCodeowner = <<>>
  /\ rootNodes = <<>>
  /\ nodeMap = <<>>
  /\ pendingPick = <<>>
  /\ call \in {Pending("getCodeownersPaths", <<>>)}
                \cup {Pending("getMostSpecificCodeowner", <<x>>) : x \in LookupPaths}

CallGetCodeownersPaths ==
  /\ call.fn = "getCodeownersPaths" /\ call.ret = <<>>
  /\ call' = [call EXCEPT !.ret = <<getCodeownersPathsOf(helpers, workspaceOpen, codeowners),
                                    errorMessageOf(workspaceOpen, codeowners)>>]
  /\ UnchangedProgram

CallGetMostSpecificCodeowner ==
  /\ call.fn = "getMostSpecificCodeowner" /\ call.ret = <<>>
  /\ LET codeownerPaths == getCodeownersPathsOf(helpers, workspaceOpen, codeowners)
     IN  call' = [call EXCEPT
                    !.args = <<call.args[1], codeownerPaths>>,
                    !.ret = <<getMostSpecificCodeowner(call.args[1], codeownerPaths)>>]
  /\ UnchangedProgram

NextIndex == CallGetCodeownersPaths \/ CallGetMostSpecificCodeowner

SpecIndex == InitIndex /\ [][NextIndex]_vars

-----------------------------------------------------------------------------
(* Specification of the tree view: a workspace with a CODEOWNERS file and  *)
(* a file tree, and the two commands of the view.                          *)

P_docsApiStar == <<"d","o","c","s","/","a","p","i","/","*">>
P_anyTs == <<"*",".","t","s">>

F_a_ts == <<"s","r","c","/","a",".","t","s">>
F_b_js == <<"s","r","c","/","b",".","j","s">>

DocsTree == {F_intro, F_readme, F_guide}
SrcTree == {F_a_ts, F_b_js}

FileTrees == {DocsTree, SrcTree}

TreeLines ==
  { RuleLine(P_docs, <<Writers>>),
    RuleLine(P_docsApi, <<ApiTeam>>),
    RuleLine(P_docsSlash, <<Writers>>),
    RuleLine(P_docsApiSlash, <<ApiTeam>>),
    RuleLine(P_docsAll, <<Writers>>),
    RuleLine(P_docsApiStar, <<ApiTeam>>),
    RuleLine(P_anyTs, <<TsOwners>>) }

Init ==
  /\ workspaceOpen = TRUE
  /\ codeowners \in {[exists |-> TRUE, readable |-> TRUE, lines |-> f] : f \in RuleFiles(TreeLines, MaxTreeRules)}
  /\ fsFiles \in FileTrees
  /\ helpers \in {"plain", "ranked"}
  /\ currentCodeowner = <<>>
  /\ rootNodes = <<>>
  /\ nodeMap = <<>>
  /\ pendingPick = <<>>
  /\ call = NoCall

\* a provider that keeps the tree it has when the owner does not change
refreshCached(codeowner) ==
  /\ currentCodeowner' = codeowner
  /\ IF ~ workspaceOpen \/ codeowner = currentCodeowner
       THEN UNCHANGED <<rootNodes, nodeMap>>
       ELSE LET codeownerPaths == getCodeownersPathsOf(helpers, workspaceOpen, codeowners)
                tree == buildPathTree(pathsOf(codeownerPaths, codeowner), fsFiles,
                                      codeownerPaths, codeowner)
            IN  /\ rootNodes' = tree.rootNodes
                /\ nodeMap' = tree.nodeMap
  /\ UNCHANGED <<workspaceOpen, codeowners, fsFiles, helpers>>

\* a provider that publishes the tree before the contents of the directories
\* are added to it and before it is sorted
refreshEarly(codeowner) ==
  /\ currentCodeowner' = codeowner
  /\ IF ~ workspaceOpen
       THEN UNCHANGED <<rootNodes, nodeMap>>
       ELSE LET codeownerPaths == getCodeownersPathsOf(helpers, workspaceOpen, codeowners)
                tree == addPaths(EmptyTree, fsFiles,
                                 expandGlobPatterns(fsFiles, pathsOf(codeownerPaths, codeowner)),
                                 codeownerPaths, codeowner)
            IN  /\ rootNodes' = tree.rootNodes
                /\ nodeMap' = tree.nodeMap
  /\ UNCHANGED <<workspaceOpen, codeowners, fsFiles, helpers>>

\* a provider that stores the new owner and builds the tree of the owner it
\* held before
refreshStale(codeowner) ==
  /\ currentCodeowner' = codeowner
  /\ IF ~ workspaceOpen
       THEN UNCHANGED <<rootNodes, nodeMap>>
       ELSE LET codeownerPaths == getCodeownersPathsOf(helpers, workspaceOpen, codeowners)
                tree == buildPathTree(pathsOf(codeownerPaths, currentCodeowner), fsFiles,
                                      codeownerPaths, currentCodeowner)
            IN  /\ rootNodes' = tree.rootNodes
                /\ nodeMap' = tree.nodeMap
  /\ UNCHANGED <<workspaceOpen, codeowners, fsFiles, helpers>>

\* codeownerTreeProvider.refresh(codeowner)
refresh(codeowner) ==
  /\ currentCodeowner' = codeowner
  /\ IF ~ workspaceOpen
       THEN UNCHANGED <<rootNodes, nodeMap>>
       ELSE LET codeownerPaths == getCodeownersPathsOf(helpers, workspaceOpen, codeowners)
                paths == pathsOf(codeownerPaths, codeowner)
                tree == buildPathTree(paths, fsFiles, codeownerPaths, codeowner)
            IN  /\ rootNodes' = tree.rootNodes
                /\ nodeMap' = tree.nodeMap
  /\ UNCHANGED <<workspaceOpen, codeowners, fsFiles, helpers>>

\* what showQuickPick can resolve to, an owner of the list (a cancelled pick
\* changes nothing)
quickPick(owners) == {owners[i] : i \in 1..Len(owners)}

\* the record of a command that has run: its name, the owner that was selected
\* when it started, and the owner it put in the title of the view
Ran(command, selectedBefore, titleOwner) ==
  [fn |-> command, args |-> <<selectedBefore>>, ret |-> <<titleOwner>>]

\* command codeOwners.generateCodeownerTree
selectCodeowner ==
  \E selectedCodeowner \in quickPick(getListOfUniqueCodeowners(workspaceOpen, codeowners)) :
    /\ refresh(selectedCodeowner)
    /\ call' = Ran("codeOwners.generateCodeownerTree", currentCodeowner, selectedCodeowner)
    /\ UNCHANGED pendingPick

\* command codeOwners.refreshTreeView
refreshTreeView ==
  IF currentCodeowner # <<>>
    THEN /\ refresh(currentCodeowner)
         /\ call' = Ran("codeOwners.refreshTreeView", currentCodeowner, currentCodeowner)
         /\ UNCHANGED pendingPick
    ELSE \E selectedCodeowner \in quickPick(getListOfUniqueCodeowners(workspaceOpen, codeowners)) :
           /\ refresh(selectedCodeowner)
           /\ call' = Ran("codeOwners.refreshTreeView", currentCodeowner, selectedCodeowner)
           /\ UNCHANGED pendingPick

Next == selectCodeowner \/ refreshTreeView

Spec == Init /\ [][Next]_vars

-----------------------------------------------------------------------------
(* generateIncludePatternCommand and helpers.formatPatternsForInclude *)

\* arr.slice(0, -1)
allButLast(arr) == IF arr = <<>> THEN <<>> ELSE SubSeq(arr, 1, Len(arr) - 1)

RECURSIVE groupBy(_, _, _)
\* the loop that fills a Record<string, string[]>, keys[i] being the key of
\* items[i]: groups in key insertion order
groupBy(keys, items, groups) ==
  IF items = <<>> THEN groups
  ELSE LET k == keys[1]
       IN  groupBy(Tail(keys), Tail(items),
                   IF \E g \in 1..Len(groups) : groups[g].key = k
                     THEN [g \in 1..Len(groups) |->
                             IF groups[g].key = k
                               THEN [groups[g] EXCEPT !.items = Append(@, items[1])]
                               ELSE groups[g]]
                     ELSE Append(groups, [key |-> k, items |-> <<items[1]>>]))

RECURSIVE collapseGroups(_)
\* the loop over Object.entries: a group of more than 3 becomes key + "/**"
collapseGroups(groups) ==
  IF groups = <<>> THEN <<>>
  ELSE (IF Len(groups[1].items) > 3
          THEN <<groups[1].key \o <<"/", "*", "*">>>>
          ELSE groups[1].items)
       \o collapseGroups(Tail(groups))

\* filePath.split("/").slice(0, -1).join("/")
parentDirectory(filePath) == join(allButLast(splitOn(filePath, "/")), <<"/">>)

groupPathsForPattern(paths) ==
  join(collapseGroups(groupBy([i \in 1..Len(paths) |-> parentDirectory(paths[i])],
                              paths, <<>>)), <<",">>)

\* the include pattern the command computes from the paths of the selected owner
includePatternOf(paths) ==
  IF Len(paths) <= 3 THEN join(paths, <<",">>) ELSE groupPathsForPattern(paths)

\* pattern.split("/")[0]
baseDirectory(pattern) == splitOn(pattern, "/")[1]

formatPatternsForInclude(patterns) ==
  IF Len(patterns) <= 3 THEN join(patterns, <<",">>)
  ELSE join(collapseGroups(groupBy([i \in 1..Len(patterns) |-> baseDirectory(patterns[i])],
                                   patterns, <<>>)), <<",">>)

-----------------------------------------------------------------------------
(* Specification of the include pattern: a workspace with a CODEOWNERS     *)
(* file, the command that generates the include pattern of an owner, and   *)
(* the helper of the ranked helpers that formats a list of patterns.       *)

OwnerW == <<"@", "w">>
OwnerX == <<"@", "x">>

P_a == <<"a">>
P_a1 == <<"a", "/", "1">>
P_a2 == <<"a", "/", "2">>
P_a3 == <<"a", "/", "3">>
P_ab == <<"a", "/", "b">>
P_ab1 == <<"a", "/", "b", "/", "1">>

IncludeLines ==
  { RuleLine(P_a1, <<OwnerW>>),
    RuleLine(P_a2, <<OwnerW>>),
    RuleLine(P_a3, <<OwnerW>>),
    RuleLine(P_ab1, <<OwnerW>>),
    RuleLine(P_a, <<OwnerW>>),
    RuleLine(P_ab, <<OwnerX>>) }

IncludeTree == {P_a1, P_a2, P_a3, P_ab1}

InitInclude ==
  /\ workspaceOpen = TRUE
  /\ codeowners \in {[exists |-> TRUE, readable |-> TRUE, lines |-> f] : f \in RuleFiles(IncludeLines, MaxIncludeRules)}
  /\ fsFiles = IncludeTree
  /\ helpers \in {"plain", "ranked"}
  /\ currentCodeowner = <<>>
  /\ rootNodes = <<>>
  /\ nodeMap = <<>>
  /\ pendingPick = <<>>
  /\ call = NoCall

\* Object.keys(codeownersMap)
ownersOf(codeownersMap) == {codeownersMap[i].owner : i \in 1..Len(codeownersMap)}

\* command codeOwners.generateIncludePattern: the call records the owner picked,
\* the paths of that owner and the pattern written to the clipboard
generateIncludePattern ==
  LET codeownersMap == getCodeownersPathsOf(helpers, workspaceOpen, codeowners)
  IN  /\ \E selectedOwner \in ownersOf(codeownersMap) :
           call' = [fn |-> "generateIncludePattern",
                    args |-> <<selectedOwner, pathsOf(codeownersMap, selectedOwner)>>,
                    ret |-> <<includePatternOf(pathsOf(codeownersMap, selectedOwner))>>]
      /\ UnchangedProgram

\* formatPatternsForInclude applied to the patterns of an owner of the index
CallFormatPatternsForInclude ==
  LET codeownersMap == getCodeownersPathsOf(helpers, workspaceOpen, codeowners)
  IN  /\ helpers = "ranked"
      /\ \E owner \in ownersOf(codeownersMap) :
           call' = [fn |-> "formatPatternsForInclude",
                    args |-> <<owner, pathsOf(codeownersMap, owner)>>,
                    ret |-> <<formatPatternsForInclude(pathsOf(codeownersMap, owner))>>]
      /\ UnchangedProgram

NextInclude == generateIncludePattern \/ CallFormatPatternsForInclude

SpecInclude == InitInclude /\ [][NextInclude]_vars

-----------------------------------------------------------------------------
(* Specification of the rule file lookup: a workspace in which the rule    *)
(* file may be missing, unreadable or empty and in which the two other     *)
(* conventional locations may hold a file; the calls that locate and read  *)
(* the rule file.                                                          *)

GithubCodeowners == <<".", "g", "i", "t", "h", "u", "b", "/", "C">>
DocsCodeowners == <<"d", "o", "c", "s", "/", "C">>
RootCodeowners == <<"C">>

\* findCodeOwnersFile(workspaceRoot): possiblePaths.find(fs.existsSync) || null
findCodeOwnersFile(githubExists, files) ==
  IF githubExists THEN GithubCodeowners
  ELSE IF DocsCodeowners \in files THEN DocsCodeowners
  ELSE IF RootCodeowners \in files THEN RootCodeowners
  ELSE Null

MissingFile == [exists |-> FALSE, readable |-> TRUE, lines |-> <<>>]
UnreadableFile == [exists |-> TRUE, readable |-> FALSE, lines |-> <<>>]
EmptyFile == [exists |-> TRUE, readable |-> TRUE, lines |-> <<>>]
DocsFile == [exists |-> TRUE, readable |-> TRUE, lines |-> <<RuleLine(P_docs, <<Writers>>)>>]

InitLocate ==
  /\ workspaceOpen \in BOOLEAN
  /\ codeowners \in {MissingFile, UnreadableFile, EmptyFile, DocsFile}
  /\ fsFiles \in SUBSET {DocsCodeowners, RootCodeowners, F_intro}
  /\ helpers \in {"plain", "ranked"}
  /\ currentCodeowner = <<>>
  /\ rootNodes = <<>>
  /\ nodeMap = <<>>
  /\ pendingPick = <<>>
  /\ call \in {Pending("getCodeownersPaths", <<>>),
               Pending("getListOfUniqueCodeowners", <<>>),
               Pending("findCodeOwnersFile", <<>>)}

CallGetListOfUniqueCodeowners ==
  /\ call.fn = "getListOfUniqueCodeowners" /\ call.ret = <<>>
  /\ call' = [call EXCEPT !.ret = <<getListOfUniqueCodeowners(workspaceOpen, codeowners),
                                    errorMessageOf(workspaceOpen, codeowners)>>]
  /\ UnchangedProgram

CallFindCodeOwnersFile ==
  /\ call.fn = "findCodeOwnersFile" /\ call.ret = <<>>
  /\ workspaceOpen
  /\ call' = [call EXCEPT !.ret = <<findCodeOwnersFile(codeowners.exists, fsFiles)>>]
  /\ UnchangedProgram

NextLocate ==
  CallGetCodeownersPaths \/ CallGetListOfUniqueCodeowners \/ CallFindCodeOwnersFile

SpecLocate == InitLocate /\ [][NextLocate]_vars

-----------------------------------------------------------------------------
(* Specification of the parser: rule files with inline comments, lines     *)
(* without owners, comment lines and blank lines; the two calls that parse *)
(* the file.                                                               *)

\* a pattern that shares its first characters with docs and lies outside it
P_docsxA == <<"d","o","c","s","x","/","a">>

ParseLines ==
  { RuleLine(P_docs, <<Writers>>),
    RuleLine(P_docs, <<Writers, <<"#">>, ApiTeam>>),
    P_docsApi,
    RuleLine(P_docsApi, <<ApiTeam>>),
    RuleLine(P_docsxA, <<ApiTeam>>),
    <<"#", " ", "c">>,
    <<>> }

InitParse ==
  /\ workspaceOpen = TRUE
  /\ codeowners \in {[exists |-> TRUE, readable |-> TRUE, lines |-> f] :
                       f \in RuleFiles(ParseLines, MaxParseLines)}
  /\ fsFiles = {}
  /\ helpers \in {"plain", "ranked"}
  /\ currentCodeowner = <<>>
  /\ rootNodes = <<>>
  /\ nodeMap = <<>>
  /\ pendingPick = <<>>
  /\ call \in {Pending("getCodeownersPaths", <<>>), Pending("getListOfUniqueCodeowners", <<>>)}

NextParse == CallGetCodeownersPaths \/ CallGetListOfUniqueCodeowners

SpecParse == InitParse /\ [][NextParse]_vars

-----------------------------------------------------------------------------
(* Specification of the tree view in a workspace whose CODEOWNERS file is  *)
(* edited: the two commands of the view, the edit of the file by its       *)
(* author, and the delivery of the file change to the extension.  The      *)
(* extension registers two commands and a tree view and no listener for    *)
(* changes of files.                                                       *)

L_docsWriters == RuleLine(P_docs, <<Writers>>)
L_apiApiTeam == RuleLine(P_docsApi, <<ApiTeam>>)
L_apiWriters == RuleLine(P_docsApi, <<Writers>>)

P_docsApiV1 == <<"d","o","c","s","/","a","p","i","/","v","1">>

\* a rule below a rule of another owner, and a rule with two owners
L_v1Writers == RuleLine(P_docsApiV1, <<Writers>>)
L_docsShared == RuleLine(P_docs, <<Writers, ApiTeam>>)

LiveFile0 == <<L_docsWriters, L_apiApiTeam>>

LiveFiles ==
  { LiveFile0, <<>>, <<L_docsWriters>>, <<L_apiApiTeam>>, <<L_apiWriters>>,
    <<L_docsWriters, L_apiWriters>>, <<L_apiApiTeam, L_v1Writers>>, <<L_docsShared>> }

InitLive ==
  /\ workspaceOpen = TRUE
  /\ codeowners = [exists |-> TRUE, readable |-> TRUE, lines |-> LiveFile0]
  /\ fsFiles \in FileTrees
  /\ helpers \in {"plain", "ranked"}
  /\ currentCodeowner = <<>>
  /\ rootNodes = <<>>
  /\ nodeMap = <<>>
  /\ pendingPick = <<>>
  /\ call = NoCall

\* the author saves another content of .github/CODEOWNERS
editCodeowners ==
  /\ \E content \in LiveFiles \ {codeowners.lines} :
       codeowners' = [codeowners EXCEPT !.lines = content]
  /\ call' = [fn |-> "save", args |-> <<>>, ret |-> <<>>]
  /\ UNCHANGED <<workspaceOpen, fsFiles, helpers, currentCodeowner, rootNodes, nodeMap, pendingPick>>

\* the workspace delivers the change of the file to the listeners the
\* extension registered in registerCodeownerTreeCommand: there is none, so the
\* provider keeps its state
fileChanged ==
  /\ call.fn = "save"
  /\ call' = [fn |-> "fileChanged", args |-> <<>>, ret |-> <<>>]
  /\ UnchangedProgram

NextLive == selectCodeowner \/ refreshTreeView \/ editCodeowners \/ fileChanged

SpecLive == InitLive /\ [][NextLive]_vars

\* the change of a file is always delivered; the user is not bound to run a
\* command, nor the author to edit
SpecLiveFair == SpecLive /\ WF_vars(fileChanged)

-----------------------------------------------------------------------------
(* Properties of the pattern matchers (SpecMatch) *)

Returned(fn) == call.fn = fn /\ call.ret # <<>>

\* a bare directory pattern: a well-formed path without wildcard
bareDirectory(p) == wellFormed(p) /\ ~ includes(p, <<"*">>)

\* x lies below directory d, at any depth
below(x, d) == startsWith(x, d \o <<"/">>) /\ Len(x) > Len(d) + 1

\* x is a direct child of directory d
directChild(x, d) == below(x, d) /\ ~ includes(sliceFrom(x, Len(d) + 1), <<"/">>)

\* C5: directory law.  For a bare directory pattern P, a matcher accepts every
\* path that begins with P + "/" (any depth) and rejects every path of which P
\* is a character prefix only, without a separator boundary.
C5_DirectoryLaw ==
  (Returned("matchesGlobPattern") \/ Returned("isPathIncluded")) =>
    LET x == call.args[1]
        p == call.args[2]
    IN  bareDirectory(p) =>
          /\ below(x, p) => call.ret[1] = TRUE
          /\ (startsWith(x, p) /\ x # p /\ ~ below(x, p)) => call.ret[1] = FALSE

\* C6: single-wildcard law.  For a pattern D/* with D a bare directory, a
\* matcher accepts a path exactly when it is a direct child of D.
C6_SingleWildcardLaw ==
  (Returned("matchesGlobPattern") \/ Returned("isPathIncluded")) =>
    LET x == call.args[1]
        p == call.args[2]
    IN  (endsWith(p, <<"/", "*">>) /\ bareDirectory(dropLast(p, 2))) =>
          (call.ret[1] = directChild(x, dropLast(p, 2)))

RECURSIVE globSemantics(_, _, _, _)
\* the matching relation of C7, read off the pattern itself: "**" is any run of
\* characters, a remaining "*" any run without "/", anything else (the dot
\* included) stands for itself; pattern and path are consumed to their ends
globSemantics(p, i, x, j) ==
  IF i > Len(p) THEN j > Len(x)
  ELSE IF p[i] = "*" /\ i < Len(p) /\ p[i + 1] = "*"
    THEN \E k \in j..(Len(x) + 1) : globSemantics(p, i + 2, x, k)
  ELSE IF p[i] = "*"
    THEN \E k \in j..(Len(x) + 1) :
           (\A m \in j..(k - 1) : x[m] # "/") /\ globSemantics(p, i + 1, x, k)
  ELSE j <= Len(x) /\ x[j] = p[i] /\ globSemantics(p, i + 1, x, j + 1)

-----------------------------------------------------------------------------
(* Properties of the specificity ranker (SpecRank) *)

\* the number of non-empty "/"-delimited segments of a pattern
segmentCount(p) ==
  Cardinality({i \in 1..Len(p) : p[i] # "/" /\ (i = 1 \/ p[i - 1] = "/")})

\* C10: specificity law.  Of two patterns, the one with more non-empty segments
\* has the strictly higher specificity, whatever bonuses either receives.
C10_SpecificityLaw ==
  Returned("calculateSpecificity") =>
    (segmentCount(call.args[1]) > segmentCount(call.args[2]) => call.ret[1] > call.ret[2])

\* C10 witness: a two-segment wildcard pattern without any bonus has been ranked
\* against a one-segment pattern that receives both bonuses
C10_Witness ==
  /\ Returned("calculateSpecificity")
  /\ segmentCount(call.args[1]) = 2 /\ includes(call.args[1], <<"*">>)
  /\ ~ includes(call.args[1], <<".">>)
  /\ segmentCount(call.args[2]) = 1 /\ ~ includes(call.args[2], <<"*">>)
  /\ includes(call.args[2], <<".">>) /\ ~ endsWith(call.args[2], <<"/">>)
  /\ call.ret = <<2 * SegmentWeight, SegmentWeight + LiteralBonus + ExtensionBonus>>

-----------------------------------------------------------------------------
(* Properties of the owner index and of the most-specific-owner lookup     *)
(* (SpecIndex)                                                             *)

\* the (owner, pattern) pairs of an owner index
indexPairs(index) ==
  UNION {{[owner |-> index[i].owner, pattern |-> index[i].paths[k]] :
            k \in 1..Len(index[i].paths)} : i \in 1..Len(index)}

\* pattern p equals the path x or names a directory above it
ancestorOrEqual(p, x) == x = p \/ below(x, p)

\* the literal rules of the index that are ancestor-or-equal of x
literalCandidates(index, x) ==
  {r \in indexPairs(index) : ~ includes(r.pattern, <<"*">>) /\ ancestorOrEqual(r.pattern, x)}

\* the index without its wildcard patterns
withoutWildcards(index) ==
  [i \in 1..Len(index) |->
     [owner |-> index[i].owner,
      paths |-> SelectSeq(index[i].paths, LAMBDA q : ~ includes(q, <<"*">>))]]

DocsScenario == <<RuleLine(P_docsSlash, <<Writers>>), RuleLine(P_docsApiSlash, <<ApiTeam>>)>>

\* C3: for the rule file docs/ @writers, docs/api/ @api-team the lookup returns
\* @api-team for docs/api/readme.md and @writers for docs/intro.md.
C3_DocsScenarioLookup ==
  (Returned("getMostSpecificCodeowner") /\ codeowners.lines = DocsScenario) =>
    /\ call.args[1] = F_readme => call.ret[1] = ApiTeam
    /\ call.args[1] = F_intro => call.ret[1] = Writers

\* the non-empty segments of a pattern
segmentsOf(p) == filterBoolean(splitOn(p, "/"))

\* pattern q names something strictly inside the directory pattern p
descendantPattern(p, q) ==
  /\ Len(segmentsOf(q)) > Len(segmentsOf(p))
  /\ SubSeq(segmentsOf(q), 1, Len(segmentsOf(p))) = segmentsOf(p)

\* C4: an owner O keeps a pattern P of its rules in the list getCodeownersPaths
\* returns when a strictly more specific rule for a descendant of P does not
\* list O.
C4_OwnerKeepsOverriddenPattern ==
  Returned("getCodeownersPaths") =>
    LET rules == parseEntries(codeowners.lines)
        index == call.ret[1]
    IN  \A i \in 1..Len(rules), j \in 1..Len(rules) :
          \A o \in {rules[i].owners[k] : k \in 1..Len(rules[i].owners)} :
            ( /\ rules[j].specificity > rules[i].specificity
              /\ descendantPattern(rules[i].pattern, rules[j].pattern)
              /\ ~ arrayIncludes(rules[j].owners, o) )
            => arrayIncludes(pathsOf(index, o), rules[i].pattern)

-----------------------------------------------------------------------------
(* Properties of the tree view (Spec) *)

RECURSIVE attachedBelow(_, _)
\* the nodes that can be reached from the nodes `frontier` through children
attachedBelow(nodes, frontier) ==
  IF frontier = {} THEN {}
  ELSE frontier \cup
       attachedBelow(nodes, UNION {{nodes[q].children[k] : k \in 1..Len(nodes[q].children)} :
                                     q \in frontier})

\* the nodes of the tree the view shows: what getChildren can reach
treeNodes == attachedBelow(nodeMap, {rootNodes[i] : i \in 1..Len(rootNodes)})

\* a tree has been built for an owner
treeBuilt == currentCodeowner # <<>>

\* the rules of the CODEOWNERS file
fileRules == parseEntries(codeowners.lines)

\* the directory a literal pattern names: without the slashes around it
directoryOf(pattern) == join(segmentsOf(pattern), <<"/">>)

\* C1: override law.  When the rule file holds a directory rule D @A and a more
\* specific rule D/S @B that does not list A, the tree built for A has no node
\* whose fullPath lies under D/S.
C1_OverrideLaw ==
  treeBuilt =>
    \A i \in 1..Len(fileRules), j \in 1..Len(fileRules) :
      ( /\ ~ includes(fileRules[i].pattern, <<"*">>)
        /\ ~ includes(fileRules[j].pattern, <<"*">>)
        /\ arrayIncludes(fileRules[i].owners, currentCodeowner)
        /\ ~ arrayIncludes(fileRules[j].owners, currentCodeowner)
        /\ below(directoryOf(fileRules[j].pattern), directoryOf(fileRules[i].pattern)) )
      => \A q \in treeNodes : ~ below(q, directoryOf(fileRules[j].pattern))

\* C8: with the rule *.ts @ts-owners and the files src/a.ts and src/b.js, the
\* tree built for @ts-owners has a node src/a.ts that is directly owned and no
\* node src/b.js.
C8_AnyTsScenario ==
  ( /\ treeBuilt
    /\ currentCodeowner = TsOwners
    /\ arrayIncludes(codeowners.lines, RuleLine(P_anyTs, <<TsOwners>>))
    /\ fsFiles = SrcTree )
  => /\ F_a_ts \in treeNodes
     /\ nodeMap[F_a_ts].isDirectlyOwned
     /\ F_b_js \notin treeNodes

\* the rule with this pattern claims the path: a literal pattern claims the
\* path it names and everything below it, a wildcard pattern what it matches
ruleClaims(pattern, x) ==
  IF includes(pattern, <<"*">>)
    THEN globSemantics(stripLeadingSlash(pattern), 1, x, 1)
    ELSE ancestorOrEqual(directoryOf(pattern), x)

\* a rule that does not list the owner claims x and is more specific than
\* every rule of the owner that claims x
claimedByOther(x, owner) ==
  \E i \in 1..Len(fileRules), j \in 1..Len(fileRules) :
    /\ arrayIncludes(fileRules[i].owners, owner)
    /\ ruleClaims(fileRules[i].pattern, x)
    /\ ~ arrayIncludes(fileRules[j].owners, owner)
    /\ ruleClaims(fileRules[j].pattern, x)
    /\ \A k \in 1..Len(fileRules) :
         (arrayIncludes(fileRules[k].owners, owner) /\ ruleClaims(fileRules[k].pattern, x))
           => fileRules[j].specificity > fileRules[k].specificity

\* C9: in the tree built for an owner no node is marked isDirectlyOwned when a
\* more specific rule, literal or wildcard, that does not list the owner
\* claims its path.
C9_OwnedMeansNotOverridden ==
  treeBuilt =>
    \A q \in treeNodes :
      nodeMap[q].isDirectlyOwned => ~ claimedByOther(q, currentCodeowner)

\* a list of nodes is in the order of the tree view: directories before files,
\* and labels non-decreasing among the directories and among the files
inViewOrder(nodes, arr) ==
  \A i \in 1..Len(arr), j \in 1..Len(arr) :
    i < j =>
      /\ ~ (nodes[arr[i]].isFile /\ ~ nodes[arr[j]].isFile)
      /\ (nodes[arr[i]].isFile = nodes[arr[j]].isFile
            => localeCompare(nodes[arr[i]].label, nodes[arr[j]].label) <= 0)

-----------------------------------------------------------------------------
(* Properties of the include pattern (SpecInclude) *)

\* the directory an entry lies in: the entry without its last segment
directoryOfEntry(entry) == join(allButLast(segmentsOf(entry)), <<"/">>)

\* how many of the listed entries lie in the directory
entriesIn(listed, dir) ==
  Cardinality({i \in 1..Len(listed) : directoryOfEntry(listed[i]) = dir})

\* the entries of a comma-separated pattern
patternEntries(pattern) ==
  IF pattern = <<>> THEN {}
  ELSE {splitOn(pattern, ",")[i] : i \in 1..Len(splitOn(pattern, ","))}

\* the pattern is the collapsed form of the listed entries
collapsedForm(listed, pattern) ==
  LET out == patternEntries(pattern)
      recursiveWildcard(dir) == dir \o <<"/", "*", "*">>
  IN  /\ \A i \in 1..Len(listed) :
           IF entriesIn(listed, directoryOfEntry(listed[i])) > 3
             THEN /\ recursiveWildcard(directoryOfEntry(listed[i])) \in out
                  /\ listed[i] \notin out
             ELSE listed[i] \in out
      /\ \A e \in out :
           \E i \in 1..Len(listed) :
             \/ e = listed[i]
             \/ e = recursiveWildcard(directoryOfEntry(listed[i]))

\* C12: the include pattern joins the owner's patterns with commas; a directory
\* that contains more than 3 of the listed entries is replaced by the one entry
\* <directory>/**, the entries of the other directories are kept.
C12_IncludePatternCollapse ==
  (Returned("generateIncludePattern") \/ Returned("formatPatternsForInclude"))
    => collapsedForm(call.args[2], call.ret[1])

\* the files shown in the tree the view builds for the owner from the rule
\* file and the file tree of the state
filesInTreeOf(owner) ==
  LET codeownerPaths == getCodeownersPathsOf(helpers, workspaceOpen, codeowners)
      tree == buildPathTree(pathsOf(codeownerPaths, owner), fsFiles, codeownerPaths, owner)
      shown == attachedBelow(tree.nodeMap, {tree.rootNodes[i] : i \in 1..Len(tree.rootNodes)})
  IN  {q \in shown : tree.nodeMap[q].isFile}

\* the comma-separated pattern matches the file: one of its entries claims it
includePatternMatches(pattern, file) ==
  \E entry \in patternEntries(pattern) : ruleClaims(entry, file)

\* C13: the include pattern generated for an owner describes exactly the files
\* the owner controls: a file of the file tree is matched by the pattern if and
\* only if it is a file of the tree built for that owner.
C13_IncludePatternExact ==
  Returned("generateIncludePattern") =>
    \A file \in fsFiles :
      includePatternMatches(call.ret[1], file) <=> file \in filesInTreeOf(call.args[1])

-----------------------------------------------------------------------------
(* Properties of the rule file lookup (SpecLocate) *)

\* what a caller gets from getCodeownersPaths for a rule file that was read
\* and is empty
emptyIndex == getCodeownersPathsOf(helpers, TRUE, EmptyFile)

\* C16: a missing rule file and an unreadable rule file are surfaced to the
\* caller of getCodeownersPaths as a failure: what the caller gets differs from
\* what it gets after a successful read of an empty rule file.
C16_FailureDistinguishable ==
  ( /\ Returned("getCodeownersPaths")
    /\ workspaceOpen
    /\ (~ codeowners.exists \/ ~ codeowners.readable) )
  => call.ret[1] # emptyIndex

\* C17: the rule file is the first that exists of .github/CODEOWNERS,
\* docs/CODEOWNERS and CODEOWNERS: the lookup returns it, and when the first
\* is absent and a later one exists, getCodeownersPaths does not report that
\* no rule file was found.
C17_FirstExistingCandidate ==
  /\ Returned("findCodeOwnersFile") =>
       call.ret[1] = (IF codeowners.exists THEN GithubCodeowners
                      ELSE IF DocsCodeowners \in fsFiles THEN DocsCodeowners
                      ELSE IF RootCodeowners \in fsFiles THEN RootCodeowners
                      ELSE Null)
  /\ ( /\ Returned("getCodeownersPaths")
       /\ workspaceOpen
       /\ ~ codeowners.exists
       /\ (DocsCodeowners \in fsFiles \/ RootCodeowners \in fsFiles) )
     => call.ret[2] # "No CODEOWNERS file found."

-----------------------------------------------------------------------------
(* Properties of the parser (SpecParse) *)

\* the owners a line names before its inline comment
ownersBeforeComment(line) ==
  LET rule == trim(splitOn(trim(line), "#")[1])
  IN  SelectSeq(Tail(splitWhitespace(rule)), LAMBDA part : startsWith(part, <<"@">>))

\* C14: what follows "#" on a rule line is a comment: an @-token after the "#"
\* never becomes an owner of that rule in the index getCodeownersPaths returns,
\* so every pattern an owner holds comes from a line that names the owner
\* before the comment.
C14_InlineCommentDiscarded ==
  Returned("getCodeownersPaths") =>
    \A r \in indexPairs(call.ret[1]) :
      \E i \in 1..Len(codeowners.lines) :
        /\ isRuleLine(codeowners.lines[i])
        /\ rulePattern(codeowners.lines[i]) = r.pattern
        /\ arrayIncludes(ownersBeforeComment(codeowners.lines[i]), r.owner)

\* the sequence without its i-th element
removeAt(arr, i) == SubSeq(arr, 1, i - 1) \o SubSeq(arr, i + 1, Len(arr))

\* a line that yields no owner
yieldsNoOwner(line) == ~ isRuleLine(line) \/ ruleOwners(line) = <<>>

\* C15: a line that yields zero owners is inert: the owner index of the rule
\* file equals the owner index of the rule file without that line.
C15_OwnerlessLineInert ==
  Returned("getCodeownersPaths") =>
    \A i \in 1..Len(codeowners.lines) :
      yieldsNoOwner(codeowners.lines[i]) =>
        call.ret[1] = getCodeownersPathsOf(helpers, workspaceOpen,
                                           [codeowners EXCEPT !.lines = removeAt(@, i)])

-----------------------------------------------------------------------------
(* Tie-break of the lookup (SpecIndex) *)

\* the literal rules of the file that apply to the path x and name an owner
applicableRules(rules, x) ==
  {i \in 1..Len(rules) :
     /\ ~ includes(rules[i].pattern, <<"*">>)
     /\ ancestorOrEqual(rules[i].pattern, x)
     /\ rules[i].owners # <<>>}

\* of the applicable rules with the highest specificity, the one declared last
preferredRule(rules, x) ==
  CHOOSE i \in applicableRules(rules, x) :
    \A j \in applicableRules(rules, x) :
      \/ rules[j].specificity < rules[i].specificity
      \/ (rules[j].specificity = rules[i].specificity /\ j <= i)

\* C20: tie-break on equal specificity.  When several rules with the highest
\* specificity apply to a path, the lookup returns an owner of the one that is
\* declared last in the file.
C20_TieBreakPrefersLater ==
  ( /\ Returned("getMostSpecificCodeowner")
    /\ applicableRules(parseEntries(codeowners.lines), call.args[1]) # {} )
  => LET rules == parseEntries(codeowners.lines)
     IN  arrayIncludes(rules[preferredRule(rules, call.args[1])].owners, call.ret[1])

-----------------------------------------------------------------------------
(* Properties of the tree view under edits of the rule file (SpecLive) *)

\* the tree the builder makes for the owner from the rule file and the file
\* tree of the state
treeBuiltFor(owner) ==
  LET codeownerPaths == getCodeownersPathsOf(helpers, workspaceOpen, codeowners)
  IN  buildPathTree(pathsOf(codeownerPaths, owner), fsFiles, codeownerPaths, owner)

\* the tree of the view is the tree of the current content of the rule file
treeCurrent ==
  /\ rootNodes = treeBuiltFor(currentCodeowner).rootNodes
  /\ nodeMap = treeBuiltFor(currentCodeowner).nodeMap

\* C18: live updates.  When the content of the CODEOWNERS file changes while
\* an owner is selected, the tree of the view eventually is the tree of the new
\* content, with no command of the user assumed to run.
C18_LiveUpdate == (treeBuilt /\ ~ treeCurrent) ~> treeCurrent

\* C19: manual refresh.  When refreshTreeView runs while an owner is selected
\* and a workspace is open, afterwards the selected owner is the same and the
\* tree is the tree built for that owner from the current content of the rule
\* file.
C19_RefreshRecomputes ==
  ( /\ call.fn = "codeOwners.refreshTreeView"
    /\ call.args[1] # <<>>
    /\ workspaceOpen )
  => (currentCodeowner = call.args[1] /\ treeCurrent)

\* the tree for @writers shows docs/api/readme.md, which the initial content of
\* the rule file gives to @api-team and the edited content does not
C19_Witness ==
  /\ call.fn = "codeOwners.refreshTreeView"
  /\ call.args[1] = Writers
  /\ codeowners.lines = <<L_docsWriters>>
  /\ currentCodeowner = Writers
  /\ treeCurrent
  /\ F_readme \in treeNodes

-----------------------------------------------------------------------------
(* Specification of the matchers side by side: the containment check of    *)
(* the owner index, the glob matcher of the tree builder and the prefix    *)
(* check of the most-specific-owner lookup, each called with a pattern and *)
(* a literal path.                                                         *)

InitAgree ==
  /\ IdleProgram
  /\ \E x \in Paths, p \in Patterns :
       call \in {Pending("isSubpath", <<x, p>>),
                 Pending("matchesGlobPattern", <<x, p>>),
                 Pending("getMostSpecificCodeowner", <<x, p>>)}

\* isSubpath(parentPath, childPath) with the pattern as parent
CallIsSubpath ==
  /\ call.fn = "isSubpath" /\ call.ret = <<>>
  /\ call' = [call EXCEPT !.ret = <<isSubpath(call.args[2], call.args[1])>>]
  /\ UnchangedProgram

\* getMostSpecificCodeowner for an index that holds the one pattern: does the
\* lookup find the owner
CallPrefixCheck ==
  /\ call.fn = "getMostSpecificCodeowner" /\ call.ret = <<>>
  /\ call' = [call EXCEPT !.ret =
                <<getMostSpecificCodeowner(
                    call.args[1],
                    <<[owner |-> HarnessOwner, paths |-> <<call.args[2]>>]>>) # Null>>]
  /\ UnchangedProgram

NextAgree == CallIsSubpath \/ CallMatchesGlobPattern \/ CallPrefixCheck

SpecAgree == InitAgree /\ [][NextAgree]_vars

-----------------------------------------------------------------------------
(* Properties of the matchers side by side (SpecAgree) *)

\* C21: one matcher everywhere.  For a pattern P and a literal path X the
\* containment check of the index (isSubpath), the glob matcher of the tree
\* (matchesGlobPattern) and, for the patterns it looks at (those without
\* wildcard), the prefix check of getMostSpecificCodeowner give the same answer
\* to whether X falls under P.
C21_OneMatcher ==
  (Returned("isSubpath") \/ Returned("matchesGlobPattern")
     \/ Returned("getMostSpecificCodeowner")) =>
    LET x == call.args[1]
        p == call.args[2]
    IN  /\ call.ret[1] = isSubpath(p, x)
        /\ call.ret[1] = matchesGlobPattern(x, p)
        /\ ~ includes(p, <<"*">>) =>
             call.ret[1] = literalPrefixMatch(x, p)

-----------------------------------------------------------------------------
(* Properties of the tree the builder returns (SpecLive, Spec) *)

\* a command of the view has just run: the tree of the state was built from
\* the rule file of the state
justBuilt ==
  call.fn \in {"codeOwners.generateCodeownerTree", "codeOwners.refreshTreeView"}

\* the paths buildPathTree keeps for the owner: the unique paths that hold no
\* wildcard, are not empty and are not given to another owner by the
\* most-specific-owner filter
survivingPaths(owner) ==
  LET codeownerPaths == getCodeownersPathsOf(helpers, workspaceOpen, codeowners)
      expandedPaths == expandGlobPatterns(fsFiles, pathsOf(codeownerPaths, owner))
      uniquePaths == unique(expandedPaths \o directoryContents(fsFiles, expandedPaths))
  IN  {stripLeadingSlash(uniquePaths[i]) : i \in
         {k \in 1..Len(uniquePaths) :
            /\ ~ includes(uniquePaths[k], <<"*">>)
            /\ stripLeadingSlash(uniquePaths[k]) # <<>>
            /\ ~ belongsToOther(stripLeadingSlash(uniquePaths[k]), codeownerPaths, owner)}}

\* the prefix path made of the first k segments of x
prefixPath(x, k) == join(SubSeq(segmentsOf(x), 1, k), <<"/">>)

\* C22: every path that survives the most-specific-owner filter is in the tree:
\* each of its prefix paths has a node, the first a root node and every other
\* a child of the node of the prefix before it, so that the node of the path
\* is reached from the root nodes.
C22_SurvivorsAttached ==
  (justBuilt /\ workspaceOpen) =>
    \A x \in survivingPaths(currentCodeowner) :
      /\ \A k \in 1..Len(segmentsOf(x)) :
           /\ prefixPath(x, k) \in DOMAIN nodeMap
           /\ k = 1 => arrayIncludes(rootNodes, prefixPath(x, k))
           /\ k > 1 => /\ prefixPath(x, k - 1) \in DOMAIN nodeMap
                       /\ arrayIncludes(nodeMap[prefixPath(x, k - 1)].children,
                                        prefixPath(x, k))
      /\ prefixPath(x, Len(segmentsOf(x))) \in treeNodes

\* the elements of a sequence are pairwise different
distinctElements(arr) == \A i \in 1..Len(arr), j \in 1..Len(arr) : arr[i] = arr[j] => i = j

\* the fullPaths of the children of node q
childrenOf(nodes, q) == {nodes[q].children[k] : k \in 1..Len(nodes[q].children)}

\* C23: the tree holds no two nodes with the same fullPath: a node is keyed by
\* its fullPath, no fullPath occurs twice among the root nodes or among the
\* children of a node, no node is the child of two nodes, and no root node is
\* a child.
C23_NoDuplicateFullPath ==
  /\ \A q \in DOMAIN nodeMap : nodeMap[q].fullPath = q
  /\ distinctElements(rootNodes)
  /\ \A q \in DOMAIN nodeMap :
       /\ distinctElements(nodeMap[q].children)
       /\ \A r \in DOMAIN nodeMap \ {q} : childrenOf(nodeMap, q) \cap childrenOf(nodeMap, r) = {}
       /\ \A i \in 1..Len(rootNodes) : rootNodes[i] \notin childrenOf(nodeMap, q)

\* the tree for @writers from a directory rule and a wildcard rule that overlap:
\* the patterns expand to the directory docs twice, and every file of the
\* directory arrives both from the wildcard and from the directory listing
C23_Witness ==
  /\ treeBuilt
  /\ currentCodeowner = Writers
  /\ codeowners.lines = <<RuleLine(P_docs, <<Writers>>), RuleLine(P_docsAll, <<Writers>>)>>
  /\ fsFiles = DocsTree
  /\ LET paths == pathsOf(getCodeownersPathsOf(helpers, workspaceOpen, codeowners), Writers)
         expandedPaths == expandGlobPatterns(fsFiles, paths)
     IN  /\ Len(expandEach(fsFiles, paths)) > Len(expandedPaths)
         /\ Len(expandedPaths \o directoryContents(fsFiles, expandedPaths))
              > Len(unique(expandedPaths \o directoryContents(fsFiles, expandedPaths)))
  /\ F_guide \in treeNodes

-----------------------------------------------------------------------------
(* Properties of the lists of the owner index (SpecIndex) *)

\* C24: in the owner index getCodeownersPaths returns, the pattern list of
\* every owner holds no pattern twice.
C24_PatternsUniquePerOwner ==
  Returned("getCodeownersPaths") =>
    \A i \in 1..Len(call.ret[1]) : distinctElements(call.ret[1][i].paths)

-----------------------------------------------------------------------------
(* Properties of the trees of co-owned and of single-level rules           *)
(* (SpecLive, Spec)                                                        *)

\* rule i of the file is a literal rule with several owners, the owner among
\* them, and no other rule of the file names its directory or something below
coOwnedBy(rules, i, owner) ==
  /\ ~ includes(rules[i].pattern, <<"*">>)
  /\ Len(rules[i].owners) >= 2
  /\ arrayIncludes(rules[i].owners, owner)
  /\ \A j \in 1..Len(rules) :
       j # i => ~ ancestorOrEqual(directoryOf(rules[i].pattern), directoryOf(rules[j].pattern))

\* C26: co-owned rules.  When a rule P @a @b lists several owners and no more
\* specific rule overrides P, the tree built for each listed owner holds the
\* files under P.
C26_CoOwnersShareTree ==
  (justBuilt /\ workspaceOpen) =>
    \A i \in 1..Len(fileRules) :
      coOwnedBy(fileRules, i, currentCodeowner) =>
        \A f \in fsFiles :
          below(f, directoryOf(fileRules[i].pattern)) => f \in treeNodes

\* the only pattern the owner holds is D/* with D a directory
onlySingleLevel(paths) ==
  /\ Len(paths) = 1
  /\ endsWith(paths[1], <<"/", "*">>)
  /\ bareDirectory(dropLast(paths[1], 2))

\* C27: single-level wildcard in the tree.  For an owner whose only pattern is
\* D/*, the tree built for the owner has no node for a file that lies two or
\* more levels below D.
C27_SingleLevelInTree ==
  treeBuilt =>
    LET paths == pathsOf(getCodeownersPathsOf(helpers, workspaceOpen, codeowners),
                         currentCodeowner)
    IN  onlySingleLevel(paths) =>
          \A q \in treeNodes :
            (nodeMap[q].isFile /\ below(q, dropLast(paths[1], 2)))
              => directChild(q, dropLast(paths[1], 2))

-----------------------------------------------------------------------------
(* Properties of the two readers of the rule file (SpecParse) *)

\* the elements of an array, as a set
elementsOf(arr) == {arr[i] : i \in 1..Len(arr)}

\* C29: the owners offered for selection and the owner index agree: the set
\* getListOfUniqueCodeowners returns equals the set of the keys of the index
\* getCodeownersPaths returns.
C29_PickListEqualsIndexKeys ==
  /\ Returned("getListOfUniqueCodeowners") =>
       elementsOf(call.ret[1])
         = ownersOf(getCodeownersPathsOf(helpers, workspaceOpen, codeowners))
  /\ Returned("getCodeownersPaths") =>
       ownersOf(call.ret[1])
         = elementsOf(getListOfUniqueCodeowners(workspaceOpen, codeowners))

\* pattern q begins with the characters of the literal pattern p and does not
\* continue with a separator: it names nothing inside the directory p
sharesPrefixOnly(p, q) ==
  /\ ~ includes(p, <<"*">>)
  /\ ~ endsWith(p, <<"/">>)
  /\ Len(q) > Len(p)
  /\ startsWith(q, p)
  /\ q[Len(p) + 1] # "/"

\* C30: override exclusion respects path-segment boundaries.  A rule whose
\* pattern only shares a character prefix with a pattern P of owner A does not
\* remove P from the list of A: when A holds P in the index of the rule file
\* without that rule, A holds P in the index of the rule file.
C30_SegmentBoundary ==
  Returned("getCodeownersPaths") =>
    \A i \in 1..Len(codeowners.lines), j \in 1..Len(codeowners.lines) :
      ( /\ isRuleLine(codeowners.lines[i])
        /\ isRuleLine(codeowners.lines[j])
        /\ sharesPrefixOnly(rulePattern(codeowners.lines[i]), rulePattern(codeowners.lines[j])) )
      => \A owner \in elementsOf(ruleOwners(codeowners.lines[i])) :
           arrayIncludes(pathsOf(getCodeownersPathsOf(helpers, workspaceOpen,
                                   [codeowners EXCEPT !.lines = removeAt(@, j)]), owner),
                         rulePattern(codeowners.lines[i]))
             => arrayIncludes(pathsOf(call.ret[1], owner), rulePattern(codeowners.lines[i]))

-----------------------------------------------------------------------------
(* Specification of the view and its commands as the event loop runs them: *)
(* a command runs to its await of showQuickPick, other handlers run while  *)
(* the pick is open, and the command resumes when the pick resolves.  The  *)
(* view calls getChildren at any time.  The workspace and the rule file do *)
(* not change.                                                             *)

ViewFiles == {<<>>, <<L_docsWriters>>, LiveFile0}

InitView ==
  /\ workspaceOpen \in BOOLEAN
  /\ codeowners \in {[exists |-> TRUE, readable |-> TRUE, lines |-> f] : f \in ViewFiles}
  /\ fsFiles = DocsTree
  /\ helpers \in {"plain", "ranked"}
  /\ currentCodeowner = <<>>
  /\ rootNodes = <<>>
  /\ nodeMap = <<>>
  /\ pendingPick = <<>>
  /\ call = NoCall

\* vscode.window.showQuickPick(items): the pick opens and the command waits
showQuickPick(command, items) ==
  /\ pendingPick' = [command |-> command, items |-> items]
  /\ call' = Pending("showQuickPick", <<command, items>>)

\* a command that returns without a refresh
returnsEarly(command) ==
  /\ call' = Ran(command, currentCodeowner, Null)
  /\ UNCHANGED <<workspaceOpen, codeowners, fsFiles, helpers, currentCodeowner, rootNodes, nodeMap>>

\* selectCodeowner up to its await
selectCodeownerAwait ==
  LET owners == getListOfUniqueCodeowners(workspaceOpen, codeowners)
  IN  IF Len(owners) = 0
        THEN returnsEarly("codeOwners.generateCodeownerTree") /\ UNCHANGED pendingPick
        ELSE /\ showQuickPick("codeOwners.generateCodeownerTree", owners)
             /\ UNCHANGED <<workspaceOpen, codeowners, fsFiles, helpers,
                            currentCodeowner, rootNodes, nodeMap>>

\* selectCodeowner after its await: the pick resolves to undefined or to an item
selectCodeownerResume ==
  /\ pendingPick # <<>>
  /\ pendingPick.command = "codeOwners.generateCodeownerTree"
  /\ pendingPick' = <<>>
  /\ \/ returnsEarly("codeOwners.generateCodeownerTree")
     \/ \E selectedCodeowner \in quickPick(pendingPick.items) :
          /\ refresh(selectedCodeowner)
          /\ call' = Ran("codeOwners.generateCodeownerTree", currentCodeowner, selectedCodeowner)

\* refreshTreeView up to its await, or to its end when an owner is selected
refreshTreeViewAwait ==
  IF currentCodeowner # <<>>
    THEN /\ refresh(currentCodeowner)
         /\ call' = Ran("codeOwners.refreshTreeView", currentCodeowner, currentCodeowner)
         /\ UNCHANGED pendingPick
    ELSE LET owners == getListOfUniqueCodeowners(workspaceOpen, codeowners)
         IN  IF Len(owners) = 0
               THEN returnsEarly("codeOwners.refreshTreeView") /\ UNCHANGED pendingPick
               ELSE /\ showQuickPick("codeOwners.refreshTreeView", owners)
                    /\ UNCHANGED <<workspaceOpen, codeowners, fsFiles, helpers,
                                   currentCodeowner, rootNodes, nodeMap>>

\* refreshTreeView after its await: the pick resolves to undefined or to an item
refreshTreeViewResume ==
  /\ pendingPick # <<>>
  /\ pendingPick.command = "codeOwners.refreshTreeView"
  /\ pendingPick' = <<>>
  /\ \/ returnsEarly("codeOwners.refreshTreeView")
     \/ \E selectedCodeowner \in quickPick(pendingPick.items) :
          /\ refresh(selectedCodeowner)
          /\ call' = Ran("codeOwners.refreshTreeView", currentCodeowner, selectedCodeowner)

\* the exported refreshCodeownerTree(codeowner)
refreshCodeownerTree ==
  \E codeowner \in {Writers, ApiTeam} :
    /\ refresh(codeowner)
    /\ call' = Ran("refreshCodeownerTree", currentCodeowner, codeowner)
    /\ UNCHANGED pendingPick

\* the item getChildren shows while no owner is selected
MessageItem == [label |-> "Select a Codeowner to show files"]

\* what getChildren(element) resolves to: the nodes behind the tree items
childrenShown(owner, roots, nodes, element) ==
  IF owner = <<>> THEN <<MessageItem>>
  ELSE IF element = Null THEN [i \in 1..Len(roots) |-> nodes[roots[i]]]
  ELSE [i \in 1..Len(nodes[element].children) |-> nodes[nodes[element].children[i]]]

\* the view asks for the root items or for the children of an item it shows
getChildren ==
  /\ \E element \in {Null} \cup attachedBelow(nodeMap, {rootNodes[i] : i \in 1..Len(rootNodes)}) :
       call' = [fn |-> "getChildren", args |-> <<element>>,
                ret |-> <<childrenShown(currentCodeowner, rootNodes, nodeMap, element)>>]
  /\ UnchangedProgram

NextView ==
  \/ selectCodeownerAwait
  \/ selectCodeownerResume
  \/ refreshTreeViewAwait
  \/ refreshTreeViewResume
  \/ refreshCodeownerTree
  \/ getChildren

SpecView == InitView /\ [][NextView]_vars

-----------------------------------------------------------------------------
(* Properties of the view under interleaved handlers (SpecView) *)

\* C25: no partial tree is exposed.  Whatever handlers have run and whatever
\* pick is open, getChildren resolves to the nodes of the completely built
\* tree of the selected owner: the root nodes of that tree for the root, the
\* children of the element in that tree for an element.
C25_NoPartialTree ==
  (call.fn = "getChildren" /\ currentCodeowner # <<>>) =>
    LET complete == treeBuiltFor(currentCodeowner)
    IN  /\ call.args[1] # Null => call.args[1] \in DOMAIN complete.nodeMap
        /\ call.ret[1] = childrenShown(currentCodeowner, complete.rootNodes,
                                       complete.nodeMap, call.args[1])

\* getChildren has resolved the children of docs/api for @writers while the
\* pick of a command is open
C25_Witness ==
  /\ call.fn = "getChildren"
  /\ call.args[1] = P_docsApi
  /\ pendingPick # <<>>
  /\ currentCodeowner = Writers
  /\ Len(call.ret[1]) = 2

=============================================================================
